---- MODULE Spec2Model ----
(***************************************************************************)
(* Terrain extractor: the legacy page script terrain_extractor_app.js      *)
(* (picking, colour mask, pixel -> lon/lat), the React ImageCanvas         *)
(* component, the Home page that wires it to the exporter, and             *)
(* lib/export.ts (exportGeoJSON).                                          *)
(***************************************************************************)
EXTENDS Integers, Sequences, FiniteSets, TLC

VARIABLES
  image,      \* terrain_extractor_app.js: let image = null  (None / Some(file))
  canvas,     \* canvas.width, canvas.height
  ctx,        \* the canvas' pixel store behind ctx.getImageData: flat RGBA
  geoBounds,  \* let geoBounds = null  (None / Some({north,south,east,west}))
  picked,     \* let picked = []
  layers,     \* layers handed to map.addLayer
  loading,    \* loadImage calls in flight: FileReader / Image not yet loaded
  img,        \* ImageCanvas: useState img
  start,      \* ImageCanvas: useState start
  color,      \* Home: useState color
  bounds,     \* Home: useState bounds
  downSince,  \* observer: offset of the latest mouse-down since the last mouse-up
  lastEvent,  \* the handler or function that ran last, with its arguments
  effects     \* what that run did to the outside: calls, return value, throw

vars == <<image, canvas, ctx, geoBounds, picked, layers, loading,
          img, start, color, bounds, downSince, lastEvent, effects>>

(***************************************************************************)
(* JavaScript values.  null / a value is a sequence of length 0 / 1.       *)
(***************************************************************************)
None == <<>>
Some(v) == <<v>>
IsSome(o) == o # <<>>
Val(o) == o[1]

Min(a, b) == IF a < b THEN a ELSE b
Max(a, b) == IF a > b THEN a ELSE b

(***************************************************************************)
(* Number arithmetic.  A JavaScript Number is an IEEE-754 binary64: every  *)
(* + - * / is the exact result rounded to 53 significant bits, ties to     *)
(* even.  Mantissas do not fit a machine integer, so naturals are          *)
(* little-endian sequences of limbs in base 2^15 without leading zeros.    *)
(* Exponent overflow, subnormals, NaN and -0 are outside the values the    *)
(* model draws (degrees, pixel indices) and are not modelled; 0 is kept    *)
(* unsigned, as === does not tell -0 from 0.                               *)
(***************************************************************************)
Precision == 53
LimbBits == 15
Base == 2^LimbBits

Limb(a, i) == IF i <= Len(a) THEN a[i] ELSE 0

RECURSIVE BNorm(_)
BNorm(a) ==
  IF a = <<>> THEN <<>>
  ELSE IF a[Len(a)] = 0 THEN BNorm(SubSeq(a, 1, Len(a) - 1)) ELSE a

RECURSIVE BFromInt(_)
BFromInt(n) == IF n = 0 THEN <<>> ELSE <<n % Base>> \o BFromInt(n \div Base)

RECURSIVE BAddC(_, _, _, _)
BAddC(a, b, i, c) ==
  IF i > Len(a) /\ i > Len(b)
  THEN IF c = 0 THEN <<>> ELSE <<c>>
  ELSE LET s == Limb(a, i) + Limb(b, i) + c
       IN  <<s % Base>> \o BAddC(a, b, i + 1, s \div Base)
BAdd(a, b) == BAddC(a, b, 1, 0)

RECURSIVE BSubC(_, _, _, _)
BSubC(a, b, i, br) ==
  IF i > Len(a) THEN <<>>
  ELSE LET d == Limb(a, i) - Limb(b, i) - br
       IN  IF d < 0 THEN <<d + Base>> \o BSubC(a, b, i + 1, 1)
                    ELSE <<d>> \o BSubC(a, b, i + 1, 0)
\* a - b for a >= b
BSub(a, b) == BNorm(BSubC(a, b, 1, 0))

RECURSIVE BCmpFrom(_, _, _)
BCmpFrom(a, b, i) ==
  IF i = 0 THEN 0
  ELSE IF a[i] > b[i] THEN 1
  ELSE IF a[i] < b[i] THEN -1
  ELSE BCmpFrom(a, b, i - 1)
\* -1, 0, 1 as a < b, a = b, a > b
BCmp(a, b) ==
  IF Len(a) > Len(b) THEN 1
  ELSE IF Len(a) < Len(b) THEN -1
  ELSE BCmpFrom(a, b, Len(a))

RECURSIVE BMulSmallC(_, _, _, _)
BMulSmallC(a, k, i, c) ==
  IF i > Len(a) THEN (IF c = 0 THEN <<>> ELSE <<c>>)
  ELSE LET p == a[i] * k + c
       IN  <<p % Base>> \o BMulSmallC(a, k, i + 1, p \div Base)
\* a * k for 0 <= k < Base
BMulSmall(a, k) == IF k = 0 THEN <<>> ELSE BMulSmallC(a, k, 1, 0)

Zeros(n) == [i \in 1..n |-> 0]
BShlLimbs(a, n) == IF a = <<>> THEN <<>> ELSE Zeros(n) \o a

RECURSIVE BMulFrom(_, _, _)
BMulFrom(a, b, j) ==
  IF j > Len(b) THEN <<>>
  ELSE BAdd(BShlLimbs(BMulSmall(a, b[j]), j - 1), BMulFrom(a, b, j + 1))
BMul(a, b) == BMulFrom(a, b, 1)

\* a * 2^k
BShl(a, k) == BShlLimbs(BMulSmall(a, 2^(k % LimbBits)), k \div LimbBits)

RECURSIVE BDivSmallFrom(_, _, _, _)
BDivSmallFrom(a, d, i, r) ==
  IF i = 0 THEN <<>>
  ELSE LET cur == r * Base + a[i]
       IN  BDivSmallFrom(a, d, i - 1, cur % d) \o <<cur \div d>>
\* floor(a / d) for 0 < d <= Base
BDivSmall(a, d) == BNorm(BDivSmallFrom(a, d, Len(a), 0))

\* floor(a / 2^k)
BShr(a, k) ==
  LET n == k \div LimbBits
  IN  IF n >= Len(a) THEN <<>>
      ELSE BDivSmall(SubSeq(a, n + 1, Len(a)), 2^(k % LimbBits))

RECURSIVE SmallBitLen(_)
SmallBitLen(n) == IF n = 0 THEN 0 ELSE 1 + SmallBitLen(n \div 2)
BBitLen(a) ==
  IF a = <<>> THEN 0 ELSE LimbBits * (Len(a) - 1) + SmallBitLen(a[Len(a)])
BOdd(a) == a # <<>> /\ a[1] % 2 = 1
BOne == <<1>>

(***************************************************************************)
(* Dyadic rationals (-1)^s * m * 2^e, exact; a Number is a dyadic whose    *)
(* mantissa has exactly Precision bits (or is zero).                       *)
(***************************************************************************)
Dy(s, m, e) == IF m = <<>> THEN [s |-> 0, m |-> <<>>, e |-> 0]
                           ELSE [s |-> s, m |-> m, e |-> e]
DZero == Dy(0, <<>>, 0)
DIsZero(a) == a.m = <<>>
DNeg(a) == Dy(1 - a.s, a.m, a.e)
DAbs(a) == Dy(0, a.m, a.e)
DFromInt(n) == IF n < 0 THEN Dy(1, BFromInt(-n), 0) ELSE Dy(0, BFromInt(n), 0)

DAdd(a, b) ==
  IF DIsZero(a) THEN b
  ELSE IF DIsZero(b) THEN a
  ELSE LET e0 == Min(a.e, b.e)
           A == BShl(a.m, a.e - e0)
           B == BShl(b.m, b.e - e0)
           c == BCmp(A, B)
       IN  IF a.s = b.s THEN Dy(a.s, BAdd(A, B), e0)
           ELSE IF c > 0 THEN Dy(a.s, BSub(A, B), e0)
           ELSE IF c < 0 THEN Dy(b.s, BSub(B, A), e0)
           ELSE DZero
DSub(a, b) == DAdd(a, DNeg(b))
DMul(a, b) ==
  IF DIsZero(a) \/ DIsZero(b) THEN DZero
  ELSE Dy((a.s + b.s) % 2, BMul(a.m, b.m), a.e + b.e)
\* the sign of a - b
DCmp(a, b) == LET d == DSub(a, b) IN IF DIsZero(d) THEN 0 ELSE IF d.s = 1 THEN -1 ELSE 1
DEq(a, b) == DCmp(a, b) = 0
DLess(a, b) == DCmp(a, b) < 0

\* Round to nearest, ties to even, to Precision significant bits.
FRound(a) ==
  LET L == BBitLen(a.m) IN
  IF DIsZero(a) THEN DZero
  ELSE IF L <= Precision THEN Dy(a.s, BShl(a.m, Precision - L), a.e - (Precision - L))
  ELSE LET k   == L - Precision
           q   == BShr(a.m, k)
           rem == BSub(a.m, BShl(q, k))
           c   == BCmp(BShl(rem, 1), BShl(BOne, k))
           up  == c > 0 \/ (c = 0 /\ BOdd(q))
           q2  == IF up THEN BAdd(q, BOne) ELSE q
       IN  IF BBitLen(q2) > Precision THEN Dy(a.s, BShr(q2, 1), a.e + k + 1)
                                      ELSE Dy(a.s, q2, a.e + k)

FAdd(a, b) == FRound(DAdd(a, b))
FSub(a, b) == FRound(DSub(a, b))
FMul(a, b) == FRound(DMul(a, b))

RECURSIVE FracLimbs(_, _, _)
\* the first n base-2^15 digits of r / d after the point, least significant first
FracLimbs(r, d, n) ==
  IF n = 0 THEN <<>>
  ELSE FracLimbs((r * Base) % d, d, n - 1) \o <<(r * Base) \div d>>
RECURSIVE FracRem(_, _, _)
FracRem(r, d, n) == IF n = 0 THEN r ELSE FracRem((r * Base) % d, d, n - 1)
FracDigits == 6
\* n / d for integers n and d > 0 (both exact Numbers): the correctly rounded
\* quotient.  The quotient is cut after FracDigits limbs and a sticky bit records
\* a non-zero remainder, which is all that rounding needs.
FDivInt(n, d) ==
  LET a   == IF n < 0 THEN -n ELSE n
      q   == BNorm(FracLimbs(a % d, d, FracDigits) \o BFromInt(a \div d))
      st  == IF FracRem(a % d, d, FracDigits) = 0 THEN <<>> ELSE BOne
  IN  FRound(Dy(IF n < 0 THEN 1 ELSE 0,
                BAdd(BShl(q, 1), st), -(LimbBits * FracDigits) - 1))

\* the Number a decimal literal with one fractional digit denotes: t/10
FromTenths(t) == FDivInt(t, 10)


(***************************************************************************)
(* Bounds of the model and the inputs the operations are tried on.         *)
(***************************************************************************)
MaxPicked == 2      \* picks kept in the picked list
MaxLoading == 1     \* loadImage calls in flight at once
MaxPixels == 2      \* pixels of a raster handed to maskByColor
MaxOver == 1        \* how far a pixel index runs past the raster's edges
MaxContours == 2    \* rings in one exportGeoJSON call
MaxCoord == 1       \* largest mouse offset tried on a canvas

\* mouse offsets inside a canvas side of the given length
Offsets(side) == 0..Min(side - 1, MaxCoord)

RECURSIVE Flatten(_)
Flatten(ss) == IF ss = <<>> THEN <<>> ELSE Head(ss) \o Flatten(Tail(ss))

\* RGBA samples: (100,100,100), (120,90,110), (140,100,100), the two edges of a window
\* of 30 around 100, and one that only a clamped window reaches.
Palette == { <<100, 100, 100, 255>>, <<120, 90, 110, 255>>, <<140, 100, 100, 255>>,
             <<130, 70, 100, 0>>, <<131, 100, 100, 7>>, <<0, 255, 30, 255>> }
Raster(w, h, px) == [width |-> w, height |-> h, data |-> Flatten(px)]
Rasters ==
  UNION { { Raster(d[1], d[2], px) : px \in [1..(d[1] * d[2]) -> Palette] } :
          d \in { e \in (1..MaxPixels) \X (1..MaxPixels) : e[1] * e[2] <= MaxPixels } }
Targets == { <<100, 100, 100>>, <<120, 90, 110>>, <<10, 250, 0>>, <<0, 255, 30>> }
Tolerances == {0, 30, 200}

\* the image files a user can open
Files == { Raster(2, 1, << <<100, 100, 100, 255>>, <<120, 90, 110, 255>> >>),
           Raster(1, 2, << <<140, 100, 100, 255>>, <<100, 100, 100, 0>> >>) }
\* what prompt() returns: null on cancel, else the text
Replies == { None, Some(""), Some("unnamed") }

\* geographic extents in tenths of a degree, as the literals a caller writes
Extents ==
  { [west |-> 883, east |-> 886, north |-> 227, south |-> 225],
    [west |-> -1157, east |-> -296, north |-> 9, south |-> 3],
    [west |-> -1, east |-> 3, north |-> 3, south |-> -1],
    [west |-> 886, east |-> 883, north |-> 225, south |-> 227] }
CanvasSizes == { [width |-> 600, height |-> 400], [width |-> 2, height |-> 1],
                 [width |-> 3, height |-> 7] }

(***************************************************************************)
(* terrain_extractor_app.js                                                *)
(***************************************************************************)
Ev(op, args) == [op |-> op, args |-> args]
Call(name, args) == [call |-> name, args |-> args]

\* the canvas holds the image last drawn on it, transparent black elsewhere
PixelAt(px, py) ==
  IF IsSome(ctx) /\ px >= 0 /\ py >= 0 /\ px < Val(ctx).width /\ py < Val(ctx).height
     /\ px < canvas.width /\ py < canvas.height
  THEN SubSeq(Val(ctx).data, 4 * (py * Val(ctx).width + px) + 1,
                             4 * (py * Val(ctx).width + px) + 4)
  ELSE <<0, 0, 0, 0>>

\* ctx.getImageData(sx, sy, sw, sh).data: RGBA, row by row
getImageData(sx, sy, sw, sh) ==
  [k \in 1..(4 * sw * sh) |->
     LET i == (k - 1) \div 4
     IN  PixelAt(sx + (i % sw), sy + (i \div sw))[((k - 1) % 4) + 1]]

\* maskByColor with the upper edge of the window left out
maskByColorStrictUpper(lower, upper) ==
  LET imgData == getImageData(0, 0, canvas.width, canvas.height)
  IN  [n \in 1..(canvas.width * canvas.height) |->
         LET j == (n - 1) * 4
             r == imgData[j + 1]
             g == imgData[j + 2]
             b == imgData[j + 3]
         IN  IF r >= lower[1] /\ r < upper[1] /\
                g >= lower[2] /\ g < upper[2] /\
                b >= lower[3] /\ b < upper[3] THEN 1 ELSE 0]

maskByColor(lower, upper) ==
  LET imgData == getImageData(0, 0, canvas.width, canvas.height)
  IN  [n \in 1..(canvas.width * canvas.height) |->
         LET j == (n - 1) * 4
             r == imgData[j + 1]
             g == imgData[j + 2]
             b == imgData[j + 3]
         IN  IF r >= lower[1] /\ r <= upper[1] /\
                g >= lower[2] /\ g <= upper[2] /\
                b >= lower[3] /\ b <= upper[3] THEN 1 ELSE 0]

dummyFindContours(mask) == <<>>

tolerance == 30
Lower(rgb, tol) == [i \in 1..3 |-> Max(0, rgb[i] - tol)]
Upper(rgb, tol) == [i \in 1..3 |-> Min(255, rgb[i] + tol)]

\* pixelToLatLon scaling x by the canvas height
pixelToLatLonByHeight(x, y) ==
  LET west == Val(geoBounds).west
      east == Val(geoBounds).east
      north == Val(geoBounds).north
      south == Val(geoBounds).south
      lon == FAdd(west, FMul(FDivInt(x, canvas.height), FSub(east, west)))
      lat == FSub(north, FMul(FDivInt(y, canvas.height), FSub(north, south)))
  IN  <<lon, lat>>

pixelToLatLon(x, y) ==
  LET west == Val(geoBounds).west
      east == Val(geoBounds).east
      north == Val(geoBounds).north
      south == Val(geoBounds).south
      lon == FAdd(west, FMul(FDivInt(x, canvas.width), FSub(east, west)))
      lat == FSub(north, FMul(FDivInt(y, canvas.height), FSub(north, south)))
  IN  <<lon, lat>>

Truthy(s) == IsSome(s) /\ Val(s) # ""

appVars == <<image, canvas, ctx, geoBounds, picked, layers, loading>>
reactVars == <<img, start, color, bounds, downSince>>

loadImage(file) ==
  /\ Cardinality(loading) < MaxLoading
  /\ loading' = loading \cup {[stage |-> "reader", file |-> file]}
  /\ lastEvent' = Ev("loadImage", <<file>>)
  /\ effects' = <<>>
  /\ UNCHANGED <<image, canvas, ctx, geoBounds, picked, layers, reactVars>>

readerOnload(l) ==
  /\ l.stage = "reader"
  /\ loading' = (loading \ {l}) \cup {[stage |-> "img", file |-> l.file]}
  /\ lastEvent' = Ev("reader.onload", <<l.file>>)
  /\ effects' = <<>>
  /\ UNCHANGED <<image, canvas, ctx, geoBounds, picked, layers, reactVars>>

\* imgOnload starting a new picking session with every image
imgOnloadReset(l) ==
  /\ l.stage = "img"
  /\ loading' = loading \ {l}
  /\ canvas' = [width |-> l.file.width, height |-> l.file.height]
  /\ ctx' = Some(l.file)
  /\ image' = Some(l.file)
  /\ picked' = <<>>
  /\ lastEvent' = Ev("img.onload", <<l.file>>)
  /\ effects' = <<>>
  /\ UNCHANGED <<geoBounds, layers, reactVars>>

imgOnload(l) ==
  /\ l.stage = "img"
  /\ loading' = loading \ {l}
  /\ canvas' = [width |-> l.file.width, height |-> l.file.height]
  /\ ctx' = Some(l.file)
  /\ image' = Some(l.file)
  /\ lastEvent' = Ev("img.onload", <<l.file>>)
  /\ effects' = <<>>
  /\ UNCHANGED <<geoBounds, picked, layers, reactVars>>

setGeoBounds(north, south, east, west) ==
  /\ geoBounds' = Some([north |-> north, south |-> south, east |-> east, west |-> west])
  /\ lastEvent' = Ev("setGeoBounds", <<north, south, east, west>>)
  /\ effects' = <<>>
  /\ UNCHANGED <<image, canvas, ctx, picked, layers, loading, reactVars>>

\* onImageClick turning away only a cancelled prompt
onImageClickAnyText(x, y, reply) ==
  /\ Len(picked) < MaxPicked
  /\ lastEvent' = Ev("onImageClick", <<x, y, reply>>)
  /\ IF ~IsSome(image) \/ ~IsSome(geoBounds)
     THEN /\ effects' = <<>>
          /\ UNCHANGED picked
     ELSE LET pixel == getImageData(x, y, 1, 1)
              rgb == <<pixel[1], pixel[2], pixel[3]>>
              label == reply
          IN  IF ~IsSome(label)
              THEN /\ effects' = << Call("prompt", <<rgb>>) >>
                   /\ UNCHANGED picked
              ELSE /\ picked' = Append(picked, [color |-> rgb, label |-> Val(label),
                                                contours |-> <<>>])
                   /\ effects' = << Call("prompt", <<rgb>>), Call("alert", <<>>) >>
  /\ UNCHANGED <<image, canvas, ctx, geoBounds, layers, loading, reactVars>>

onImageClick(x, y, reply) ==
  /\ Len(picked) < MaxPicked
  /\ lastEvent' = Ev("onImageClick", <<x, y, reply>>)
  /\ IF ~IsSome(image) \/ ~IsSome(geoBounds)
     THEN /\ effects' = <<>>
          /\ UNCHANGED picked
     ELSE LET pixel == getImageData(x, y, 1, 1)
              rgb == <<pixel[1], pixel[2], pixel[3]>>
              label == reply
          IN  IF ~Truthy(label)
              THEN /\ effects' = << Call("prompt", <<rgb>>) >>
                   /\ UNCHANGED picked
              ELSE LET lower == Lower(rgb, tolerance)
                       upper == Upper(rgb, tolerance)
                       mask == maskByColor(lower, upper)
                       contours == dummyFindContours(mask)
                   IN  /\ picked' = Append(picked, [color |-> rgb, label |-> Val(label),
                                                    contours |-> contours])
                       /\ effects' = << Call("prompt", <<rgb>>), Call("alert", <<>>) >>
  /\ UNCHANGED <<image, canvas, ctx, geoBounds, layers, loading, reactVars>>

RECURSIVE FlatMapContours(_)
FlatMapContours(items) ==
  IF items = <<>> THEN <<>>
  ELSE [k \in 1..Len(Head(items).contours) |->
          [lineString |-> [p \in 1..Len(Head(items).contours[k]) |->
              pixelToLatLon(Head(items).contours[k][p][1], Head(items).contours[k][p][2])]]]
       \o FlatMapContours(Tail(items))

plotGeoJSONOnMap ==
  /\ lastEvent' = Ev("plotGeoJSONOnMap", <<>>)
  /\ effects' = <<>>
  /\ IF ~IsSome(geoBounds) THEN UNCHANGED layers
     ELSE LET features == FlatMapContours(picked)
          IN  IF features = <<>> THEN UNCHANGED layers
              ELSE layers' = Append(layers, features)
  /\ UNCHANGED <<image, canvas, ctx, geoBounds, picked, loading, reactVars>>

Number(e) == [north |-> FromTenths(e.north), south |-> FromTenths(e.south),
              east |-> FromTenths(e.east), west |-> FromTenths(e.west)]

ReactInit ==
  /\ img = None /\ start = None /\ color = None /\ bounds = None /\ downSince = None
Idle == lastEvent = Ev("init", <<>>) /\ effects = <<>>

Init ==
  /\ image = None
  /\ canvas = [width |-> 300, height |-> 150]
  /\ ctx = None
  /\ geoBounds = None
  /\ picked = <<>>
  /\ layers = <<>>
  /\ loading = {}
  /\ ReactInit
  /\ Idle

Next ==
  \/ \E f \in Files : loadImage(f)
  \/ \E l \in loading : readerOnload(l)
  \/ \E l \in loading : imgOnload(l)
  \/ \E e \in Extents : setGeoBounds(Number(e).north, Number(e).south,
                                     Number(e).east, Number(e).west)
  \/ \E x \in Offsets(canvas.width), y \in Offsets(canvas.height), reply \in Replies :
        onImageClick(x, y, reply)
  \/ plotGeoJSONOnMap

Spec == Init /\ [][Next]_vars

(***************************************************************************)
(* Pure functions of terrain_extractor_app.js, applied to drawn inputs.    *)
(***************************************************************************)
callMaskByColor(target, tol) ==
  /\ lastEvent' = Ev("maskByColor", <<target, tol>>)
  /\ effects' = << Call("return", maskByColor(Lower(target, tol), Upper(target, tol))) >>
  /\ UNCHANGED <<appVars, reactVars>>

InitMask ==
  /\ \E r \in Rasters :
        /\ image = Some(r)
        /\ ctx = Some(r)
        /\ canvas = [width |-> r.width, height |-> r.height]
  /\ geoBounds = None /\ picked = <<>> /\ layers = <<>> /\ loading = {}
  /\ ReactInit
  /\ Idle
NextMask == \E target \in Targets, tol \in Tolerances : callMaskByColor(target, tol)
SpecMask == InitMask /\ [][NextMask]_vars

callPixelToLatLon(x, y) ==
  /\ lastEvent' = Ev("pixelToLatLon", <<x, y>>)
  /\ effects' = << Call("return", pixelToLatLon(x, y)) >>
  /\ UNCHANGED <<appVars, reactVars>>

\* pixel indices around both edges of a raster side, inside and outside
PixelIndices(side) == ((-MaxOver)..MaxOver) \cup ((side - MaxOver)..(side + MaxOver))

InitGeo ==
  /\ \E e \in Extents : geoBounds = Some(Number(e))
  /\ canvas \in CanvasSizes
  /\ image = None /\ ctx = None /\ picked = <<>> /\ layers = <<>> /\ loading = {}
  /\ ReactInit
  /\ Idle
NextGeo ==
  \E x \in PixelIndices(canvas.width), y \in PixelIndices(canvas.height) :
     callPixelToLatLon(x, y)
SpecGeo == InitGeo /\ [][NextGeo]_vars

(***************************************************************************)
(* lib/export.ts                                                           *)
(***************************************************************************)
JNum(n) == [t |-> "number", v |-> n]
JArr(es) == [t |-> "array", e |-> es]
JNull == [t |-> "null"]
JUndefined == [t |-> "undefined"]

Digits == <<"0", "1", "2", "3", "4", "5", "6", "7", "8", "9">>
RECURSIVE NumberToString(_)
\* Number.prototype.toString of an integer
NumberToString(n) ==
  IF n < 0 THEN "-" \o NumberToString(-n)
  ELSE IF n < 10 THEN Digits[n + 1]
  ELSE NumberToString(n \div 10) \o Digits[(n % 10) + 1]

RECURSIVE Join(_, _)
\* Array.prototype.join
Join(xs, sep) ==
  IF xs = <<>> THEN ""
  ELSE IF Len(xs) = 1 THEN NumberToString(xs[1])
  ELSE NumberToString(xs[1]) \o sep \o Join(Tail(xs), sep)

\* ([x, y]) => ... : destructuring iterates its argument, which only an array allows
Iterable(p) == p.t = "array"
Element(p, i) == IF i <= Len(p.e) THEN p.e[i] ELSE JUndefined
\* ring.map(...) throws when ring has no map or a point cannot be destructured
RingThrows(ring) ==
  \/ ring.t # "array"
  \/ \E k \in 1..Len(ring.e) : ~Iterable(ring.e[k])
RingMap(ring) == [k \in 1..Len(ring.e) |-> <<Element(ring.e[k], 1), Element(ring.e[k], 2)>>]

\* Feature numbering from one
FeatureFromOne(ring, i, rgb) ==
  [type |-> "Feature",
   geometry |-> [type |-> "Polygon", coordinates |-> << RingMap(ring) >>],
   properties |-> [id |-> i + 1, color |-> "rgb(" \o Join(rgb, ",") \o ")"]]

Feature(ring, i, rgb) ==
  [type |-> "Feature",
   geometry |-> [type |-> "Polygon", coordinates |-> << RingMap(ring) >>],
   properties |-> [id |-> i, color |-> "rgb(" \o Join(rgb, ",") \o ")"]]

\* JSON.stringify writes an undefined array element as null
StringifyValue(v) == IF v.t = "undefined" THEN JNull ELSE v
Stringify(geojson) ==
  [type |-> geojson.type,
   features |-> [i \in 1..Len(geojson.features) |->
      LET f == geojson.features[i]
      IN  [type |-> f.type,
           geometry |-> [type |-> f.geometry.type,
                         coordinates |-> [r \in 1..Len(f.geometry.coordinates) |->
                            [k \in 1..Len(f.geometry.coordinates[r]) |->
                               [c \in 1..2 |->
                                  StringifyValue(f.geometry.coordinates[r][k][c])]]]],
           properties |-> f.properties]]]

Throw(name) == << Call("throw", <<name>>) >>

\* exportGeoJSON leaving out the rings it cannot read and writing the rest
exportGeoJSONSkipBad(polygons, rgb) ==
  IF polygons.t # "array" THEN Throw("TypeError")
  ELSE LET good == SelectSeq(polygons.e, LAMBDA r : ~RingThrows(r))
           features == [i \in 1..Len(good) |-> Feature(good[i], i - 1, rgb)]
           geojson == [type |-> "FeatureCollection", features |-> features]
       IN  << Call("saveAs", <<Stringify(geojson), "features.geojson">>) >>

\* what one call does: it throws out of polygons.map, or it reaches saveAs
exportGeoJSON(polygons, rgb) ==
  IF polygons.t # "array" THEN Throw("TypeError")
  ELSE IF \E i \in 1..Len(polygons.e) : RingThrows(polygons.e[i]) THEN Throw("TypeError")
  ELSE LET features == [i \in 1..Len(polygons.e) |-> Feature(polygons.e[i], i - 1, rgb)]
           geojson == [type |-> "FeatureCollection", features |-> features]
           blob == Stringify(geojson)
       IN  << Call("saveAs", <<blob, "features.geojson">>) >>

callExportGeoJSON(polygons, rgb) ==
  /\ lastEvent' = Ev("exportGeoJSON", <<polygons, rgb>>)
  /\ effects' = exportGeoJSON(polygons, rgb)
  /\ UNCHANGED <<appVars, reactVars>>

Pt(x, y) == JArr(<<JNum(x), JNum(y)>>)
RectRing == JArr(<<Pt(0, 0), Pt(10, 0), Pt(10, 10), Pt(0, 10), Pt(0, 0)>>)
\* rings: well-formed ones, then a point too long, a point too short, a point
\* that is no array, and a ring that is no array
Rings == { RectRing, JArr(<<>>), JArr(<<Pt(3, 4), Pt(10, 7)>>),
           JArr(<<Pt(0, 0), JArr(<<JNum(1), JNum(2), JNum(3)>>)>>),
           JArr(<<JArr(<<JNum(5)>>)>>),
           JArr(<<Pt(0, 0), JNum(4)>>),
           JNull }
PolygonInputs ==
  {JNull} \cup UNION { { JArr(rs) : rs \in [1..n -> Rings] } : n \in 0..MaxContours }
Colors == { <<255, 0, 0>>, <<0, 128, 7>>, <<100, 100, 100>> }

InitExport ==
  /\ image = None
  /\ canvas = [width |-> 300, height |-> 150]
  /\ ctx = None
  /\ geoBounds = None /\ picked = <<>> /\ layers = <<>> /\ loading = {}
  /\ ReactInit
  /\ Idle
NextExport == \E polygons \in PolygonInputs, rgb \in Colors : callExportGeoJSON(polygons, rgb)
SpecExport == InitExport /\ [][NextExport]_vars

(***************************************************************************)
(* components/ImageCanvas.tsx and the Home page                            *)
(***************************************************************************)
homeFrame == <<image, geoBounds, picked, layers, loading>>

\* image.onload = () => setImg(image); the next render sizes the canvas to the
\* image and the effect on [img] draws it.  Mouse events are discrete events:
\* React commits a handler's state updates before the next handler runs, so a
\* handler with the render that follows it is one step.
imageOnload(file) ==
  /\ ~IsSome(img)
  /\ img' = Some(file)
  /\ canvas' = [width |-> file.width, height |-> file.height]
  /\ ctx' = Some(file)
  /\ lastEvent' = Ev("image.onload", <<file>>)
  /\ effects' = <<>>
  /\ UNCHANGED <<homeFrame, start, color, bounds, downSince>>

\* x, y: Math.floor of the offsets in the canvas
handleClick(x, y) ==
  /\ lastEvent' = Ev("handleClick", <<x, y>>)
  /\ IF ~IsSome(img)
     THEN /\ effects' = <<>>
          /\ UNCHANGED color
     ELSE LET data == getImageData(x, y, 1, 1)
              rgb == <<data[1], data[2], data[3]>>
          IN  /\ effects' = << Call("onColorPick", <<rgb>>) >>
              /\ color' = Some(rgb)
  /\ UNCHANGED <<homeFrame, canvas, ctx, img, start, bounds, downSince>>

handleMouseDown(x, y) ==
  /\ start' = Some(<<x, y>>)
  /\ downSince' = Some(<<x, y>>)
  /\ lastEvent' = Ev("handleMouseDown", <<x, y>>)
  /\ effects' = <<>>
  /\ UNCHANGED <<homeFrame, canvas, ctx, img, color, bounds>>

\* handleMouseUp without setStart(null)
handleMouseUpNoReset(x, y) ==
  /\ lastEvent' = Ev("handleMouseUp", <<x, y>>)
  /\ downSince' = None
  /\ IF ~IsSome(start)
     THEN /\ effects' = <<>>
          /\ UNCHANGED bounds
     ELSE /\ effects' = << Call("onBoundsDraw", <<Val(start), <<x, y>>>>) >>
          /\ bounds' = Some(<<Val(start), <<x, y>>>>)
  /\ UNCHANGED <<homeFrame, canvas, ctx, img, color, start>>

handleMouseUp(x, y) ==
  /\ lastEvent' = Ev("handleMouseUp", <<x, y>>)
  /\ downSince' = None
  /\ IF ~IsSome(start)
     THEN /\ effects' = <<>>
          /\ UNCHANGED <<start, bounds>>
     ELSE LET end == <<x, y>>
          IN  /\ effects' = << Call("onBoundsDraw", <<Val(start), end>>) >>
              /\ bounds' = Some(<<Val(start), end>>)
              /\ start' = None
  /\ UNCHANGED <<homeFrame, canvas, ctx, img, color>>

\* handleExport without the closing point of the ring
handleExportOpenRing ==
  /\ lastEvent' = Ev("handleExport", <<>>)
  /\ IF ~IsSome(color) \/ ~IsSome(bounds)
     THEN effects' = <<>>
     ELSE LET s == Val(bounds)[1]
              e == Val(bounds)[2]
              dummyPolygon == JArr(<< Pt(s[1], s[2]), Pt(e[1], s[2]), Pt(e[1], e[2]),
                                      Pt(s[1], e[2]) >>)
          IN  effects' = << Call("exportGeoJSON", <<JArr(<<dummyPolygon>>), Val(color)>>) >>
                         \o exportGeoJSON(JArr(<<dummyPolygon>>), Val(color))
  /\ UNCHANGED <<homeFrame, canvas, ctx, img, start, color, bounds, downSince>>

handleExport ==
  /\ lastEvent' = Ev("handleExport", <<>>)
  /\ IF ~IsSome(color) \/ ~IsSome(bounds)
     THEN effects' = <<>>
     ELSE LET s == Val(bounds)[1]
              e == Val(bounds)[2]
              dummyPolygon == JArr(<< Pt(s[1], s[2]), Pt(e[1], s[2]), Pt(e[1], e[2]),
                                      Pt(s[1], e[2]), Pt(s[1], s[2]) >>)
          IN  effects' = << Call("exportGeoJSON", <<JArr(<<dummyPolygon>>), Val(color)>>) >>
                         \o exportGeoJSON(JArr(<<dummyPolygon>>), Val(color))
  /\ UNCHANGED <<homeFrame, canvas, ctx, img, start, color, bounds, downSince>>

InitHome ==
  /\ image = None
  /\ canvas = [width |-> 600, height |-> 400]
  /\ ctx = None
  /\ geoBounds = None /\ picked = <<>> /\ layers = <<>> /\ loading = {}
  /\ ReactInit
  /\ Idle
NextHome ==
  \/ \E f \in Files : imageOnload(f)
  \/ \E x \in Offsets(canvas.width), y \in Offsets(canvas.height) : handleClick(x, y)
  \/ \E x \in Offsets(canvas.width), y \in Offsets(canvas.height) : handleMouseDown(x, y)
  \/ \E x \in Offsets(canvas.width), y \in Offsets(canvas.height) : handleMouseUp(x, y)
  \/ handleExport
SpecHome == InitHome /\ [][NextHome]_vars

(***************************************************************************)
(* Properties                                                              *)
(***************************************************************************)
Returned == effects[1].args
HasCall(es, name) == \E k \in 1..Len(es) : es[k].call = name
IsPrefix(a, b) == Len(a) <= Len(b) /\ SubSeq(b, 1, Len(a)) = a

\* C1: the mask maskByColor returns for the window of a target colour and a
\* tolerance has one entry per pixel of the raster, 1 exactly where red, green and
\* blue all lie in [max(0, c - tol), min(255, c + tol)] and 0 elsewhere, whatever
\* the alpha; with tolerance 0 only pixels equal to the target match, and with
\* tolerance 30 around (100,100,100) pixel (120,90,110) matches and
\* (140,100,100) does not.
C1_MaskIsWindowTest ==
  lastEvent.op = "maskByColor" =>
    LET target == lastEvent.args[1]
        tol == lastEvent.args[2]
        mask == Returned
        raster == Val(image)
        px(i) == << raster.data[4 * (i - 1) + 1], raster.data[4 * (i - 1) + 2],
                    raster.data[4 * (i - 1) + 3] >>
        lo(c) == IF target[c] - tol < 0 THEN 0 ELSE target[c] - tol
        hi(c) == IF target[c] + tol > 255 THEN 255 ELSE target[c] + tol
        inWindow(i) == \A c \in 1..3 : lo(c) <= px(i)[c] /\ px(i)[c] <= hi(c)
    IN  /\ Len(mask) = raster.width * raster.height
        /\ \A i \in 1..Len(mask) : mask[i] = (IF inWindow(i) THEN 1 ELSE 0)
        /\ tol = 0 => \A i \in 1..Len(mask) : (mask[i] = 1) <=> (px(i) = target)
        /\ (tol = 30 /\ target = <<100, 100, 100>>) =>
              \A i \in 1..Len(mask) :
                 /\ px(i) = <<120, 90, 110>> => mask[i] = 1
                 /\ px(i) = <<140, 100, 100>> => mask[i] = 0

\* a mask taken with tolerance 30 around (100,100,100) over the two example pixels
C1_Witness ==
  /\ lastEvent = Ev("maskByColor", << <<100, 100, 100>>, 30 >>)
  /\ Val(image).data = <<120, 90, 110, 255, 140, 100, 100, 255>>
  /\ Returned = <<1, 0>>

ArgX == lastEvent.args[1]
ArgY == lastEvent.args[2]
Lon == Returned[1]
Lat == Returned[2]
GB == Val(geoBounds)
\* 2^-48 times the larger magnitude of a and b
Slack(a, b) ==
  LET m == IF DLess(DAbs(a), DAbs(b)) THEN DAbs(b) ELSE DAbs(a)
  IN  Dy(0, m.m, m.e - 48)
\* |n * got - (n * from + k * (to - from))| <= n * slack, all exact: got is within
\* slack of from + (k / n) * (to - from)
Near(got, from, to, k, n, slack) ==
  LET want == DAdd(DMul(from, DFromInt(n)), DMul(DFromInt(k), DSub(to, from)))
      err == DAbs(DSub(DMul(got, DFromInt(n)), want))
  IN  DCmp(err, DMul(slack, DFromInt(n))) <= 0
\* to - from is a Number, so the subtraction rounds nothing away
ExactDifference(to, from) == DEq(FSub(to, from), DSub(to, from))
Example == [west |-> 883, east |-> 886, north |-> 227, south |-> 225]
AtExample == GB = Number(Example) /\ canvas = [width |-> 600, height |-> 400]

\* C2 as stated: for every bounds and raster size, pixelToLatLon's
\* lon = west + (x/width)*(east-west) and lat = north - (y/height)*(north-south)
\* make pixel (0,0) map to (west,north) and pixel (width,height) to (east,south).
C2_Original ==
  lastEvent.op = "pixelToLatLon" =>
    /\ ArgX = 0 => DEq(Lon, GB.west)
    /\ ArgY = 0 => DEq(Lat, GB.north)
    /\ ArgX = canvas.width => DEq(Lon, GB.east)
    /\ ArgY = canvas.height => DEq(Lat, GB.south)

\* C2 (amended): for every bounds, raster size and pixel index within three raster
\* sides, in or out of the raster, pixelToLatLon returns the two formulas evaluated
\* in double precision, which is within 2^-48 times the larger bound of their real
\* value (no clamping, no failure); pixel (0,0) is exactly (west,north); pixel
\* (width,height) is exactly (east,south) when east-west and north-south are
\* themselves doubles, as they are in the 600x400 example, which gives
\* (88.3,22.7) and (88.6,22.5).
C2_WithinRounding ==
  lastEvent.op = "pixelToLatLon" =>
    /\ Near(Lon, GB.west, GB.east, ArgX, canvas.width, Slack(GB.west, GB.east))
    /\ Near(Lat, GB.north, GB.south, ArgY, canvas.height, Slack(GB.north, GB.south))
    /\ ArgX = 0 => DEq(Lon, GB.west)
    /\ ArgY = 0 => DEq(Lat, GB.north)
    /\ (ArgX = canvas.width /\ ExactDifference(GB.east, GB.west)) => DEq(Lon, GB.east)
    /\ (ArgY = canvas.height /\ ExactDifference(GB.north, GB.south)) => DEq(Lat, GB.south)
    /\ (AtExample /\ ArgX = 0 /\ ArgY = 0) =>
          Returned = <<FromTenths(883), FromTenths(227)>>
    /\ (AtExample /\ ArgX = 600 /\ ArgY = 400) =>
          Returned = <<FromTenths(886), FromTenths(225)>>

\* the far corner of the 600x400 example
C2_Witness ==
  /\ AtExample
  /\ lastEvent = Ev("pixelToLatLon", <<600, 400>>)
  /\ Returned = <<FromTenths(886), FromTenths(225)>>
  /\ ExactDifference(GB.east, GB.west)

ExportPolygons == lastEvent.args[1]
ExportColor == lastEvent.args[2]
WellFormedPoint(p) ==
  p.t = "array" /\ Len(p.e) = 2 /\ \A c \in 1..2 : p.e[c].t = "number"
WellFormedRing(r) == r.t = "array" /\ \A k \in 1..Len(r.e) : WellFormedPoint(r.e[k])
WellFormed(ps) == ps.t = "array" /\ \A i \in 1..Len(ps.e) : WellFormedRing(ps.e[i])
Saved == effects[1].args[1]

\* C3: for n >= 0 well-formed contours and a colour (r,g,b), exportGeoJSON writes a
\* FeatureCollection of exactly n features in input order; feature i is a Polygon
\* with one ring, contour i's points unchanged and in order, properties.id = i
\* counted from 0 within the call and properties.color = "rgb(r,g,b)"; n = 0 gives
\* features = [] and no error.
C3_OneFeaturePerContour ==
  (lastEvent.op = "exportGeoJSON" /\ WellFormed(ExportPolygons)) =>
    /\ Len(effects) = 1
    /\ effects[1].call = "saveAs"
    /\ Saved.type = "FeatureCollection"
    /\ Len(Saved.features) = Len(ExportPolygons.e)
    /\ \A i \in 1..Len(ExportPolygons.e) :
          LET f == Saved.features[i]
              contour == ExportPolygons.e[i].e
          IN  /\ f.type = "Feature"
              /\ f.geometry.type = "Polygon"
              /\ Len(f.geometry.coordinates) = 1
              /\ Len(f.geometry.coordinates[1]) = Len(contour)
              /\ \A k \in 1..Len(contour) : f.geometry.coordinates[1][k] = contour[k].e
              /\ f.properties.id = i - 1
              /\ f.properties.color =
                   "rgb(" \o ToString(ExportColor[1]) \o "," \o ToString(ExportColor[2])
                          \o "," \o ToString(ExportColor[3]) \o ")"

\* the rectangle ring of the example exported twice over in one call, in red
C3_Witness ==
  /\ lastEvent = Ev("exportGeoJSON", <<JArr(<<RectRing, RectRing>>), <<255, 0, 0>>>>)
  /\ effects[1].call = "saveAs"
  /\ Saved.features[2].properties = [id |-> 1, color |-> "rgb(255,0,0)"]

\* C4: given contours that are not a sequence of sequences of 2-tuples,
\* exportGeoJSON signals an error and writes no document.
C4_MalformedRejected ==
  (lastEvent.op = "exportGeoJSON" /\ ~WellFormed(ExportPolygons)) =>
    /\ HasCall(effects, "throw")
    /\ ~HasCall(effects, "saveAs")

\* C5: a call of exportGeoJSON either fails with an error and saveAs is never
\* called, or succeeds with saveAs called once on a document that holds a feature
\* for every input contour; never a document for part of the contours.
C5_AllOrNothing ==
  lastEvent.op = "exportGeoJSON" =>
    /\ Len(effects) = 1
    /\ \/ effects[1].call = "throw"
       \/ /\ effects[1].call = "saveAs"
          /\ ExportPolygons.t = "array"
          /\ Len(Saved.features) = Len(ExportPolygons.e)

\* a call that fails on its second ring after a readable first one
C5_Witness ==
  /\ lastEvent.op = "exportGeoJSON"
  /\ ExportPolygons = JArr(<<RectRing, JNull>>)
  /\ effects = Throw("TypeError")

\* C6: whenever geoBounds is set, west < east and south < north.
C6_BoundsOrdered ==
  IsSome(geoBounds) => DLess(GB.west, GB.east) /\ DLess(GB.south, GB.north)

ClickAccepted ==
  /\ lastEvent'.op = "onImageClick"
  /\ IsSome(image) /\ IsSome(geoBounds)
  /\ Truthy(lastEvent'.args[3])

\* C7: picked holds one entry per accepted pick in the order of the picks, without
\* deduplication or reordering: an accepted pick appends one entry, and whatever
\* runs (a pick, setGeoBounds, an image load, a map plot) leaves the list as it was
\* a prefix of the list after.
C7_AppendOnly ==
  [][ /\ IsPrefix(picked, picked')
      /\ ClickAccepted => Len(picked') = Len(picked) + 1
      /\ ~ClickAccepted => picked' = picked ]_vars

\* the same colour and label picked twice, and an image loaded after that
C7_Witness ==
  /\ Len(picked) = 2
  /\ picked[1] = picked[2]
  /\ lastEvent.op = "img.onload"

\* C8: a canvas click leaves picked unchanged when no image is loaded, geoBounds is
\* not set or the label is empty or missing, and otherwise appends exactly one
\* entry {color, label, contours} with the clicked pixel's RGB and the entered
\* label; no stored feature has an empty label and none is stored before geoBounds
\* is supplied.
C8_ClickAppendsOrNothing ==
  /\ [](\A k \in 1..Len(picked) : picked[k].label # "")
  /\ [](picked # <<>> => IsSome(geoBounds) /\ IsSome(image))
  /\ [][ lastEvent'.op = "onImageClick" =>
           LET x == lastEvent'.args[1]
               y == lastEvent'.args[2]
               reply == lastEvent'.args[3]
           IN  IF ~IsSome(image) \/ ~IsSome(geoBounds) \/ reply = None \/ reply = Some("")
               THEN picked' = picked
               ELSE LET at == 4 * (y * Val(image).width + x)
                        added == picked'[Len(picked')]
                    IN  /\ Len(picked') = Len(picked) + 1
                        /\ SubSeq(picked', 1, Len(picked)) = picked
                        /\ DOMAIN added = {"color", "label", "contours"}
                        /\ added.color = SubSeq(Val(image).data, at + 1, at + 3)
                        /\ added.label = Val(reply) ]_vars

\* an accepted click on the second pixel of the 2x1 image
C8_Witness ==
  /\ lastEvent = Ev("onImageClick", <<1, 0, Some("unnamed")>>)
  /\ picked # <<>>
  /\ picked[Len(picked)].color = <<120, 90, 110>>
  /\ picked[Len(picked)].label = "unnamed"

\* C9: onBoundsDraw is called only by a mouse-up that follows a mouse-down with no
\* mouse-up in between, once, with start the offset of the latest mouse-down and
\* end the offset of the mouse-up; that mouse-up resets the drag start, and a
\* mouse-up with no mouse-down since the last one calls nothing.
C9_DrawOnlyAfterDown ==
  [][ /\ HasCall(effects', "onBoundsDraw") =>
           /\ lastEvent'.op = "handleMouseUp"
           /\ IsSome(downSince)
           /\ effects' = << Call("onBoundsDraw", <<Val(downSince), lastEvent'.args>>) >>
           /\ start' = None
      /\ (lastEvent'.op = "handleMouseUp" /\ ~IsSome(downSince)) => effects' = <<>> ]_vars

\* a drag from (1,0) released at (0,1)
C9_Witness ==
  /\ lastEvent = Ev("handleMouseUp", <<0, 1>>)
  /\ effects = << Call("onBoundsDraw", << <<1, 0>>, <<0, 1>> >>) >>
  /\ start = None

ClickedRGB ==
  LET at == 4 * (lastEvent'.args[2] * Val(img).width + lastEvent'.args[1])
  IN  SubSeq(Val(img).data, at + 1, at + 3)
Ring5(b) ==
  JArr(<< Pt(b[1][1], b[1][2]), Pt(b[2][1], b[1][2]), Pt(b[2][1], b[2][2]),
          Pt(b[1][1], b[2][2]), Pt(b[1][1], b[1][2]) >>)

\* C10: on the Home page exportGeoJSON is called only by an Export click made after
\* a colour was picked and bounds were drawn; an Export click before either changes
\* no state and writes nothing.  The call gets the colour picked last and exactly
\* one closed ring of 5 points, (sx,sy),(ex,sy),(ex,ey),(sx,ey),(sx,sy), of the
\* bounds drawn last, in pixel coordinates.
C10_ExportNeedsColorAndBounds ==
  [][ /\ (HasCall(effects', "exportGeoJSON") \/ HasCall(effects', "saveAs")) =>
            lastEvent'.op = "handleExport" /\ IsSome(color) /\ IsSome(bounds)
      /\ lastEvent'.op = "handleExport" =>
            /\ UNCHANGED <<img, start, color, bounds, canvas, ctx>>
            /\ IF IsSome(color) /\ IsSome(bounds)
               THEN /\ Len(effects') = 2
                    /\ effects'[1] = Call("exportGeoJSON",
                                          <<JArr(<<Ring5(Val(bounds))>>), Val(color)>>)
                    /\ effects'[2].call = "saveAs"
               ELSE effects' = <<>>
      /\ color' # color =>
            lastEvent'.op = "handleClick" /\ IsSome(img) /\ color' = Some(ClickedRGB)
      /\ (lastEvent'.op = "handleClick" /\ IsSome(img)) => color' = Some(ClickedRGB)
      /\ bounds' # bounds =>
            /\ lastEvent'.op = "handleMouseUp"
            /\ IsSome(downSince)
            /\ bounds' = Some(<<Val(downSince), lastEvent'.args>>)
      /\ (lastEvent'.op = "handleMouseUp" /\ IsSome(downSince)) =>
            bounds' = Some(<<Val(downSince), lastEvent'.args>>) ]_vars

\* an Export click after picking (120,90,110) and dragging from (0,0) to (1,0)
C10_Witness ==
  /\ lastEvent.op = "handleExport"
  /\ color = Some(<<120, 90, 110>>)
  /\ bounds = Some(<< <<0, 0>>, <<1, 0>> >>)
  /\ Len(effects) = 2
  /\ effects[2].call = "saveAs"
  /\ effects[2].args[1].features[1].geometry.coordinates[1][2] = <<JNum(1), JNum(0)>>
====
